---- MODULE Spec2Model ----
(***************************************************************************)
(* The session-authenticated multi-tenant portal server (src/server.js,    *)
(* lines 297-694), the seed script (src/prisma/seed.js) and the admin-user *)
(* store they share; the key-gated server (src/server.js, lines 1-295);    *)
(* the script that encrypts the tenants' secrets                           *)
(* (src/utils/scripts/encrypt-tenant-secrets.js, lines 1-40); and the      *)
(* premium poller of the portal page (src/static/premium.js).              *)
(*                                                                         *)
(* Every HTTP handler is one action.  Node runs a handler to completion,   *)
(* so one request is handled at a time: a handler fires when no request is *)
(* being answered, leaves the request and its response in req and resp,    *)
(* and Finish ends the exchange.  The properties relate req, resp and the  *)
(* server's state.                                                         *)
(***************************************************************************)
EXTENDS Integers, Sequences, FiniteSets, TLC

VARIABLES
  now,            \* the clock, in days (Date.now(), new Date())
  tenants,        \* store: rows of table Tenant
  adminUsers,     \* store: rows of table AdminUser
  stateByTenant,  \* server.js:460, the in-memory state, by tenant key
  issued,         \* the session tokens the server has handed out in cookies
  req,            \* the request being answered, Idle when there is none
  resp,           \* the response to req
  touched,        \* the keys of stateByTenant that handling req created or changed
  resolved,       \* the tenant the handler of req resolved, <<>> when it resolved none
  failStreak,     \* the failed logins in a row from one IP since the clock moved
  loggedOut,      \* the tokens POST /api/logout has been answered 200 for
  wrote,          \* the ingestion calls that reached their handler so far: who wrote what where
  script,         \* the run of scripts/encrypt-tenant-secrets.js, NotRun when there is none
  customerKey,    \* process.env.CUSTOMER_KEY of the key-gated server (server.js:11), Undefined when unset
  page            \* the browser page running static/premium.js, NoPage when none is open

vars == <<now, tenants, adminUsers, stateByTenant, issued, req, resp, touched, resolved,
          failStreak, loggedOut, wrote, script, customerKey, page>>

(***************************************************************************)
(* Bounds of the model.                                                    *)
(***************************************************************************)
MaxTime == 8
MaxTokens == 2
MaxWrites == 1
MaxLogged == 2
MaxRuns == 2
MaxCalls == 4
LoginFailLimit == 2

(***************************************************************************)
(* Strings.  A string whose characters the code inspects (a tenant id, an  *)
(* email) is a sequence of one-character strings, so that toLowerCase and  *)
(* a test on its characters are computed; any other string is kept whole.  *)
(***************************************************************************)
LowerChar(c) ==
  CASE c = "A" -> "a"
    [] c = "B" -> "b"
    [] c = "D" -> "d"
    [] c = "E" -> "e"
    [] c = "T" -> "t"
    [] c = "Z" -> "z"
    [] OTHER -> c

toLowerCase(s) == [i \in 1..Len(s) |-> LowerChar(s[i])]

(***************************************************************************)
(* JavaScript values: a tag t and a value v.                               *)
(***************************************************************************)
Str(s) == [t |-> "string", v |-> s]
Text(s) == [t |-> "text", v |-> s]
Num(n) == [t |-> "number", v |-> n]
Obj(f) == [t |-> "object", v |-> f]
Arr(q) == [t |-> "array", v |-> q]
Null == [t |-> "null", v |-> 0]
Undefined == [t |-> "undefined", v |-> 0]
NaN == [t |-> "NaN", v |-> 0]

Truthy(x) ==
  CASE x.t = "string" -> x.v # <<>>
    [] x.t = "text" -> x.v # ""
    [] x.t = "envelope" -> TRUE
    [] x.t = "number" -> x.v # 0
    [] x.t \in {"object", "array"} -> TRUE
    [] OTHER -> FALSE

Nullish(x) == x.t \in {"null", "undefined"}

\* o.k and o?.k on the values that reach them
Get(o, k) == IF o.t = "object" /\ k \in DOMAIN o.v THEN o.v[k] ELSE Undefined

\* a || b
Or(a, b) == IF Truthy(a) THEN a ELSE b

\* a ?? b
Coalesce(a, b) == IF Nullish(a) THEN b ELSE a

\* String(v) of a tenant id
StringOf(v) == IF v.t = "string" THEN v.v ELSE <<"n", "u", "l", "l">>

\* q.slice(0, n)
Slice(q, n) == SubSeq(q, 1, IF Len(q) < n THEN Len(q) ELSE n)

\* Math.round(a / b) for a >= 0, b > 0
Round(a, b) == (2 * a + b) \div (2 * b)

(***************************************************************************)
(* The values the model draws its inputs from.                             *)
(***************************************************************************)
DefaultTenant == <<"d", "e", "f", "a", "u", "l", "t">>
DefaultTenantName == <<"D", "e", "f", "a", "u", "l", "t", " ", "T", "e", "n", "a", "n", "t">>
AdminEmail == <<"a", "d", "m", "i", "n", "@", "e", "x", "a", "m", "p", "l", "e", ".", "c", "o", "m">>
AdminPassword == "admin123"

Acme == <<"a", "c", "m", "e">>
AcmeCap == <<"A", "c", "m", "e">>
Dotted == <<"a", ".", "b">>
Beta == <<"b", "e", "t", "a">>
Www == <<"w", "w", "w">>

BobEmail == <<"b", "o", "b", "@", "x">>
AmyEmail == <<"a", "m", "y", "@", "x">>
EveEmail == <<"e", "v", "e", "@", "x">>
ZedEmail == <<"Z", "e", "d", "@", "x">>
NoEmail == <<"n", "o", "@", "x">>

Passwords == {"", AdminPassword, "pw1"}
Salts == {"s1"}
IPs == {"ip1", "ip2"}

(***************************************************************************)
(* bcryptjs: a salted hash; compare recomputes it with the stored salt.    *)
(***************************************************************************)
bcryptHash(password, salt) == <<"$2a$10$", salt, password>>

bcryptCompare(password, hash) == bcryptHash(password, hash[2]) = hash

(***************************************************************************)
(* The store.  seed.js keys an admin user by (tenantId, email), the login  *)
(* handler looks it up by email alone: the store admits what the seed's    *)
(* key admits, the same email in two tenants included.                     *)
(***************************************************************************)
User(id, tenantId, email, password) ==
  [id |-> id, tenantId |-> tenantId, email |-> email, passwordHash |-> bcryptHash(password, "s1")]

Bob == User(2, Str(Acme), BobEmail, "pw1")
Amy == User(3, Str(AcmeCap), AmyEmail, "pw1")
Bob2 == User(4, Str(Dotted), BobEmail, "pw1")
Eve == User(5, Null, EveEmail, "pw1")
Zed == User(6, Str(Beta), ZedEmail, "pw1")

Stores == { {}, {Bob, Amy}, {Bob, Bob2}, {Eve, Zed} }

\* A row of table Tenant; the secret columns are null until someone sets them.
TenantRow(id, name) ==
  [id |-> id, name |-> name, apiKey |-> "api-key", plan |-> "basic", subdomain |-> id,
   smtpPass |-> Null, openaiKey |-> Null, googleClientSecret |-> Null, googleTokens |-> Null]

TenantsOf(users) == { TenantRow(u.tenantId.v, u.tenantId.v) : u \in { x \in users : x.tenantId.t = "string" } }

\* The order of strings: by character code, the shorter of two equal starts first.
Alphabet ==
  <<" ", ".", "@", "A", "B", "D", "E", "T", "Z", "a", "b", "c", "d", "e", "f", "g", "h", "i", "j", "k",
    "l", "m", "n", "o", "p", "q", "r", "s", "t", "u", "v", "w", "x", "y", "z">>

CharCode(c) == CHOOSE i \in 1..Len(Alphabet) : Alphabet[i] = c

RECURSIVE StrLess(_, _)
StrLess(a, b) ==
  IF b = <<>> THEN FALSE
  ELSE IF a = <<>> THEN TRUE
  ELSE IF Head(a) = Head(b) THEN StrLess(Tail(a), Tail(b))
  ELSE CharCode(Head(a)) < CharCode(Head(b))

RECURSIVE OrderByName(_)
\* orderBy: { name: 'asc' }
OrderByName(rows) ==
  IF rows = {} THEN <<>>
  ELSE LET first == CHOOSE r \in rows : \A o \in rows \ {r} : ~StrLess(o.name, r.name) /\ (o.name = r.name => StrLess(r.id, o.id))
       IN  <<first>> \o OrderByName(rows \ {first})

\* prisma.tenant.findMany({ select: { id, name, subdomain, plan }, orderBy: { name: 'asc' } })
findManyTenants(rows) ==
  LET sorted == OrderByName(rows)
  IN  [i \in 1..Len(sorted) |->
         [id |-> sorted[i].id, name |-> sorted[i].name, subdomain |-> sorted[i].subdomain, plan |-> sorted[i].plan]]

NextId(users) == IF users = {} THEN 1 ELSE 1 + CHOOSE m \in { u.id : u \in users } : \A u \in users : u.id <= m

\* prisma.adminUser.findUnique({ where: { email } }): the row with that email, or
\* null; with the email in two tenants, whichever row the lookup comes upon.
findUnique(users, email) ==
  LET rows == { u \in users : u.email = email }
  IN  IF rows = {} THEN { <<>> } ELSE { <<u>> : u \in rows }

(***************************************************************************)
(* jsonwebtoken: sign and verify.                                          *)
(***************************************************************************)
JWT_SECRET == "JWT_SECRET"
ExpiresIn == 7

Hmac(payload, iat, exp, secret) == <<secret, payload, iat, exp>>

jwtSign(payload, secret, t) ==
  [payload |-> payload, iat |-> t, exp |-> t + ExpiresIn,
   sig |-> Hmac(payload, t, t + ExpiresIn, secret)]

\* A verification that checks the signature and not the expiry.
jwtVerifiesSignature(tok, secret, t) ==
  tok.sig = Hmac(tok.payload, tok.iat, tok.exp, secret)

\* jwt.verify throws unless the signature matches and the token has not expired.
jwtVerifies(tok, secret, t) ==
  /\ tok.sig = Hmac(tok.payload, tok.iat, tok.exp, secret)
  /\ t < tok.exp

jwtDecoded(tok) ==
  [adminUserId |-> tok.payload.adminUserId, tenantId |-> tok.payload.tenantId,
   email |-> tok.payload.email, iat |-> tok.iat, exp |-> tok.exp]

\* A cookie whose token does not carry the account's tenant.
setSessionCookieNoTenant(payload, t) == << jwtSign([payload EXCEPT !.tenantId = Null], JWT_SECRET, t) >>

\* server.js:318.  The cookie set on the response, as a sequence of 0 or 1 tokens.
setSessionCookie(payload, t) == << jwtSign(payload, JWT_SECRET, t) >>

\* A reader that decodes the token without verifying it (jwt.decode for jwt.verify).
readSessionDecoded(cookies, t) ==
  IF cookies = <<>> THEN <<>> ELSE << jwtDecoded(cookies[1]) >>

\* server.js:328.  <<>> is null, <<s>> is the session s.
readSession(cookies, t) ==
  IF cookies = <<>> THEN <<>>
  ELSE IF jwtVerifies(cookies[1], JWT_SECRET, t) THEN << jwtDecoded(cookies[1]) >>
  ELSE <<>>

(***************************************************************************)
(* What a client can send as its session cookie: nothing, a token it was   *)
(* given, a token it altered, or one it signed itself.                     *)
(***************************************************************************)
Altered(tok) == [tok EXCEPT !.payload.tenantId = Str(DefaultTenant), !.exp = @ + ExpiresIn]

Forged == jwtSign([adminUserId |-> 1, tenantId |-> Str(Acme), email |-> BobEmail], "guessed", 0)

HonestCookies == { <<>> } \cup { <<k>> : k \in issued }

CookieChoices == HonestCookies \cup { <<Forged>> } \cup { <<Altered(k)>> : k \in issued }

(***************************************************************************)
(* The per-tenant in-memory state, server.js:459-498 and 613-688.          *)
(***************************************************************************)
EventsCap == 50
ErrorsCap == 100
UsagesCap == 100
MetricsCap == 100
TopicsCap == 10

Date(t) == [t |-> "date", v |-> t]

NewState(t) ==
  [startedAt |-> t, requestsToday |-> 0, successesToday |-> 0, latSamples |-> <<>>,
   events |-> <<>>, errors |-> <<>>,
   usage |-> [period |-> Text("Current"), tokens |-> Num(0), costUSD |-> Num(0),
              model |-> Null, user |-> Null],
   usages |-> <<>>, metrics |-> <<>>, conversations |-> <<>>,
   totalLeads |-> Undefined, withContact |-> Undefined, topics |-> Undefined]

\* server.js:461.  The map with the tenant's state in it, created when missing.
getTenantState(sbt, tenant, t) ==
  IF tenant \in DOMAIN sbt THEN sbt ELSE sbt @@ (tenant :> NewState(t))

\* server.js:614
addEvent(state, role, message, t) ==
  [state EXCEPT
     !.events = Slice(<< [at |-> t, role |-> Or(role, Text("sys")), message |-> Or(message, Text(""))] >> \o @,
                      EventsCap),
     !.requestsToday = @ + 1]

\* server.js:625
addError(state, user, message, t) ==
  [state EXCEPT
     !.errors = Slice(<< [at |-> t, user |-> user, message |-> Or(message, Text("error"))] >> \o @,
                      ErrorsCap)]

\* A normalisation that prefers the canonical names over inputCost, outputCost, cachedCost.
addUsagePromptFirst(state, usage, t) ==
  LET u == Or(usage, Obj(<< >>))
      b == Get(u, "breakdown")
      breakdown ==
        [promptUSD |-> Coalesce(Get(b, "promptUSD"), Coalesce(Get(b, "inputCost"), Num(0))),
         completionUSD |-> Coalesce(Get(b, "completionUSD"), Coalesce(Get(b, "outputCost"), Num(0))),
         cachedUSD |-> Coalesce(Get(b, "cachedUSD"), Coalesce(Get(b, "cachedCost"), Num(0))),
         total |-> Coalesce(Get(b, "total"), Coalesce(Get(u, "costUSD"), Coalesce(Get(u, "cost"), Num(0))))]
      normalized ==
        [at |-> t, model |-> Get(u, "model"),
         prompt_tokens |-> Or(Get(u, "prompt_tokens"), Num(0)),
         completion_tokens |-> Or(Get(u, "completion_tokens"), Num(0)),
         cached_tokens |-> Or(Get(u, "cached_tokens"), Num(0)),
         user |-> Get(u, "user"),
         costUSD |-> Or(Get(u, "costUSD"), Or(Get(u, "cost"), Num(0))),
         breakdown |-> breakdown]
  IN  [state EXCEPT
         !.usage = normalized @@ [period |-> Text("Current")],
         !.usages = Slice(<<normalized>> \o @, UsagesCap)]

\* server.js:635
addUsage(state, usage, t) ==
  LET u == Or(usage, Obj(<< >>))
      b == Get(u, "breakdown")
      breakdown ==
        [promptUSD |-> Coalesce(Get(b, "inputCost"), Coalesce(Get(b, "promptUSD"), Num(0))),
         completionUSD |-> Coalesce(Get(b, "outputCost"), Coalesce(Get(b, "completionUSD"), Num(0))),
         cachedUSD |-> Coalesce(Get(b, "cachedCost"), Coalesce(Get(b, "cachedUSD"), Num(0))),
         total |-> Coalesce(Get(b, "total"), Coalesce(Get(u, "costUSD"), Coalesce(Get(u, "cost"), Num(0))))]
      normalized ==
        [at |-> t, model |-> Get(u, "model"),
         prompt_tokens |-> Or(Get(u, "prompt_tokens"), Num(0)),
         completion_tokens |-> Or(Get(u, "completion_tokens"), Num(0)),
         cached_tokens |-> Or(Get(u, "cached_tokens"), Num(0)),
         user |-> Get(u, "user"),
         costUSD |-> Or(Get(u, "costUSD"), Or(Get(u, "cost"), Num(0))),
         breakdown |-> breakdown]
  IN  [state EXCEPT
         !.usage = normalized @@ [period |-> Text("Current")],
         !.usages = Slice(<<normalized>> \o @, UsagesCap)]

\* A routine that adds the record at the end of the log (push for unshift).
addMetricPush(state, type, value, t) ==
  [state EXCEPT
     !.metrics = Slice(Append(@, [at |-> t, type |-> type, value |-> value]), MetricsCap),
     !.latSamples = IF type = Text("latency") THEN Append(@, value) ELSE @,
     !.successesToday = IF type = Text("success") THEN @ + 1 ELSE @]

\* server.js:669
addMetric(state, type, value, t) ==
  [state EXCEPT
     !.metrics = Slice(<< [at |-> t, type |-> type, value |-> value] >> \o @, MetricsCap),
     !.latSamples = IF type = Text("latency") THEN Append(@, value) ELSE @,
     !.successesToday = IF type = Text("success") THEN @ + 1 ELSE @]

\* The property name a value makes as a key of an object.
KeyOf(x) == IF x.t = "text" THEN x.v ELSE x.t

ConvPut(convs, key, value) ==
  IF \E i \in 1..Len(convs) : convs[i].sessionId = key
  THEN [i \in 1..Len(convs) |-> IF convs[i].sessionId = key
                                 THEN [sessionId |-> key, value |-> value] ELSE convs[i]]
  ELSE Append(convs, [sessionId |-> key, value |-> value])

RECURSIVE AddAll(_, _)
\* new Set(cur), then add each of tags: no tag twice, in order of arrival
AddAll(cur, tags) ==
  IF tags = <<>> THEN cur
  ELSE AddAll(IF \E i \in 1..Len(cur) : cur[i] = Head(tags) THEN cur ELSE Append(cur, Head(tags)),
              Tail(tags))

Plus1(x) == Num((IF Truthy(x) THEN x.v ELSE 0) + 1)

\* server.js:677.  The state it leaves, and whether it threw on the way.
addConversation(state, sessionId, data, t) ==
  LET fields == IF data.t = "object" THEN data.v @@ [at |-> Date(t)] ELSE [at |-> Date(t)]
      stored == [state EXCEPT !.conversations = ConvPut(@, KeyOf(sessionId), Obj(fields)),
                              !.totalLeads = Plus1(@)]
      tags == Get(data, "tags")
  IN  IF Nullish(data) THEN [state |-> stored, threw |-> TRUE]
      ELSE [state |->
              [stored EXCEPT
                 !.withContact = IF Truthy(Or(Get(data, "email"), Get(data, "phone"))) THEN Plus1(@) ELSE @,
                 !.topics = IF tags.t = "array"
                            THEN Arr(AddAll(IF Truthy(@) THEN @.v ELSE <<>>, tags.v)) ELSE @],
            threw |-> FALSE]

RECURSIVE SumSamples(_)
\* latSamples.reduce((a, b) => a + b, 0)
SumSamples(q) ==
  IF q = <<>> THEN Num(0)
  ELSE LET rest == SumSamples(SubSeq(q, 1, Len(q) - 1))
           last == q[Len(q)]
       IN  IF rest.t = "number" /\ last.t = "number" THEN Num(rest.v + last.v) ELSE NaN

\* server.js:479.  successRate is in tenths of a percent, uptimeSec in seconds.
metrics(state, t) ==
  LET successRate == IF state.requestsToday # 0
                     THEN Round(state.successesToday * 1000, state.requestsToday) ELSE 1000
      total == SumSamples(state.latSamples)
      avgLatency == IF state.latSamples # <<>>
                    THEN (IF total.t = "number" THEN Num(Round(total.v, Len(state.latSamples))) ELSE NaN)
                    ELSE Num(0)
  IN  [status |-> IF successRate >= 990 /\ avgLatency.t = "number" /\ avgLatency.v < 250 THEN "ok"
                  ELSE IF successRate >= 950 THEN "degraded" ELSE "down",
       uptimeSec |-> (t - state.startedAt) * 86400,
       requestsToday |-> state.requestsToday,
       successRate |-> successRate,
       avgLatencyMs |-> avgLatency,
       leadsByDay |-> <<>>,
       usage |-> state.usage]

IsLead(m) == m.type = Text("lead") /\ Truthy(m.value)

TagsOf(m) == LET g == Get(m.value, "tags") IN IF g.t = "array" THEN g.v ELSE <<>>

RECURSIVE AllTags(_)
AllTags(leads) == IF leads = <<>> THEN <<>> ELSE TagsOf(Head(leads)) \o AllTags(Tail(leads))

RECURSIVE CountTags(_, _)
\* tagCounts[t] = (tagCounts[t] || 0) + 1, the keys in order of arrival
CountTags(tags, acc) ==
  IF tags = <<>> THEN acc
  ELSE CountTags(Tail(tags),
         IF \E i \in 1..Len(acc) : acc[i].tag = Head(tags)
         THEN [i \in 1..Len(acc) |-> IF acc[i].tag = Head(tags) THEN [tag |-> acc[i].tag, n |-> acc[i].n + 1] ELSE acc[i]]
         ELSE Append(acc, [tag |-> Head(tags), n |-> 1]))

RECURSIVE SortByCount(_)
\* Array.prototype.sort((a, b) => b[1] - a[1]): stable, the larger count first
SortByCount(q) ==
  IF q = <<>> THEN <<>>
  ELSE LET m == CHOOSE i \in 1..Len(q) :
                  /\ \A j \in 1..Len(q) : q[j].n <= q[i].n
                  /\ \A j \in 1..(i - 1) : q[j].n < q[i].n
       IN  <<q[m]>> \o SortByCount(SubSeq(q, 1, m - 1) \o SubSeq(q, m + 1, Len(q)))

\* server.js:427, the body of GET /api/portal/premium
premium(state, t) ==
  LET leads == SelectSeq(state.metrics, IsLead)
      hasContact(m) == Truthy(Get(m.value, "email")) /\ Truthy(Get(m.value, "phone"))
      conv(c) == [name |-> Or(Get(c, "name"), Or(Get(c, "email"), Text("Unknown"))),
                  snippet |-> Or(Get(c, "snippet"), Or(Get(c, "lastMessage"), Text(""))),
                  at |-> Or(Get(c, "at"), Date(t)),
                  email |-> Or(Get(c, "email"), Text("")),
                  phone |-> Or(Get(c, "phone"), Text("")),
                  tags |-> IF Get(c, "tags").t = "array" THEN Get(c, "tags").v ELSE <<>>]
      sorted == SortByCount(CountTags(AllTags(leads), <<>>))
  IN  [totalLeads |-> Len(leads),
       withContact |-> Len(SelectSeq(leads, hasContact)),
       conversations |-> [i \in 1..Len(state.conversations) |-> conv(state.conversations[i].value)],
       topics |-> [i \in 1..Len(Slice(sorted, TopicsCap)) |-> sorted[i].tag]]

\* A resolver that lets the request's query parameter outrank the session.
resolveAdminTenantQuery(user, hints) ==
  IF Truthy(hints.query) THEN toLowerCase(StringOf(hints.query))
  ELSE IF user # <<>> /\ Truthy(user[1].tenantId) THEN toLowerCase(StringOf(user[1].tenantId))
  ELSE DefaultTenant

\* server.js:404.  req.user is the session requireAuth found; the request's
\* other tenant hints are not looked at.
resolveAdminTenant(user, hints) ==
  IF user # <<>> /\ Truthy(user[1].tenantId)
  THEN toLowerCase(StringOf(user[1].tenantId))
  ELSE DefaultTenant

(***************************************************************************)
(* Requests and responses.                                                 *)
(***************************************************************************)
\* The places other than the session where a request can name a tenant.
NoHints == [cookie |-> Null, header |-> Null, query |-> Null, subdomain |-> Null]
AllHints == [cookie |-> Str(Beta), header |-> Str(Acme), query |-> Str(Beta), subdomain |-> Str(Www)]
HintChoices == { NoHints, AllHints }

Idle == [route |-> "none"]
NotRun ==
  [pc |-> "none", runs |-> 0, hasKey |-> FALSE, reads |-> 0, todo |-> <<>>, before |-> {},
   updates |-> <<>>, rejected |-> <<>>, prior |-> "none"]
NoResponse == [status |-> 0]
NoPage ==
  [KEY |-> "", pollTimer |-> FALSE, inFlight |-> 0, lastData |-> 0, error |-> "", loading |-> {},
   calls |-> <<>>]

Request(route, cookies, query, body, hints, ip, dbUp) ==
  [route |-> route, cookies |-> cookies, query |-> query, body |-> body, hints |-> hints,
   ip |-> ip, dbUp |-> dbUp, at |-> now,
   priorFails |-> IF failStreak.ip = ip THEN failStreak.n ELSE 0]

Response(status, body, setCookie, clearCookie) ==
  [status |-> status, body |-> body, setCookie |-> setCookie, clearCookie |-> clearCookie]

ErrorResponse(status, code) == Response(status, [error |-> code], <<>>, FALSE)

AuthRequired == ErrorResponse(401, "auth_required")

Ok == Response(200, [ok |-> TRUE], <<>>, FALSE)

\* Express's answer to a handler that threw.
Thrown == Response(500, "Internal Server Error", <<>>, FALSE)

\* What handling a request leaves: the response, the per-tenant map, and the
\* tenant the handler resolved (<<>> when it resolved none).
Outcome(rs, sbt, tenant) == [resp |-> rs, sbt |-> sbt, tenant |-> tenant]

Changed(old, new) == { k \in DOMAIN new : k \notin DOMAIN old \/ old[k] # new[k] } \cup (DOMAIN old \ DOMAIN new)

\* server.js:334.  The handler's outcome is computed only for a request with a session.
requireAuth(cookies, t, sbt, handled) ==
  IF readSession(cookies, t) = <<>> THEN Outcome(AuthRequired, sbt, <<>>) ELSE handled

\* A handler answers r with out: the part all handlers share.
Answer(r, out) ==
  /\ req.route = "none"
  /\ req' = r
  /\ resp' = out.resp
  /\ stateByTenant' = out.sbt
  /\ touched' = Changed(stateByTenant, out.sbt)
  /\ resolved' = out.tenant

\* The exchange is over.
Finish ==
  /\ req.route # "none"
  /\ req' = Idle
  /\ resp' = NoResponse
  /\ touched' = {}
  /\ resolved' = <<>>
  /\ UNCHANGED <<now, tenants, adminUsers, stateByTenant, issued, failStreak, loggedOut, wrote, script, customerKey, page>>

(***************************************************************************)
(* Initial state: a store with some admin users and their tenants, a       *)
(* server that has just started.                                           *)
(***************************************************************************)
InitOf(stores) ==
  /\ now = 0
  /\ adminUsers \in stores
  /\ tenants = TenantsOf(adminUsers)
  /\ stateByTenant = << >>
  /\ issued = {}
  /\ failStreak = [ip |-> "ip1", n |-> 0]
  /\ loggedOut = {}
  /\ wrote = <<>>
  /\ script = NotRun
  /\ customerKey = Undefined
  /\ page = NoPage
  /\ req = Idle
  /\ resp = NoResponse
  /\ touched = {}
  /\ resolved = <<>>

Init == InitOf(Stores)

(***************************************************************************)
(* prisma/seed.js main: upsert the default tenant and its admin user.      *)
(***************************************************************************)
Seed ==
  \E salt \in Salts :
    LET tenantRows == { r \in tenants : r.id = DefaultTenant }
        userRows == { u \in adminUsers : u.tenantId = Str(DefaultTenant) /\ u.email = AdminEmail }
        passwordHash == bcryptHash(AdminPassword, salt)
    IN  /\ req.route = "none"
        /\ tenants' = IF tenantRows = {}
                      THEN tenants \cup { [TenantRow(DefaultTenant, DefaultTenantName) EXCEPT !.apiKey = "default-api-key"] }
                      ELSE tenants
        /\ adminUsers' =
             IF userRows = {}
             THEN adminUsers \cup { [id |-> NextId(adminUsers), tenantId |-> Str(DefaultTenant),
                                     email |-> AdminEmail, passwordHash |-> passwordHash] }
             ELSE adminUsers
        /\ UNCHANGED <<now, stateByTenant, issued, req, resp, touched, resolved, failStreak, loggedOut, wrote, script, customerKey, page>>

(***************************************************************************)
(* The clock moves on to a later one of the instants the model looks at.   *)
(***************************************************************************)
Instants == { 0, ExpiresIn, MaxTime }

Tick ==
  /\ req.route = "none"
  /\ \E t \in Instants : t > now /\ t <= MaxTime /\ now' = t
  /\ failStreak' = [ip |-> "ip1", n |-> 0]
  /\ UNCHANGED <<tenants, adminUsers, stateByTenant, issued, req, resp, touched, resolved, loggedOut, wrote, script, customerKey, page>>

(***************************************************************************)
(* What the clients send.  A specification fixes it with a record: the     *)
(* emails, passwords, source IPs and tenant hints of login requests, the   *)
(* outcomes of the store, the session cookies, the tenant hints and the    *)
(* bodies of portal requests.                                              *)
(***************************************************************************)
StoredEmails == { Str(u.email) : u \in adminUsers }

LoginHints == { NoHints, [NoHints EXCEPT !.header = Str(Dotted)] }

LogBodies ==
  { Obj([type |-> Text("event"), role |-> Text("user"), message |-> Text("hello")]),
    Obj([type |-> Text("error"), user |-> Text("u1")]),
    Obj([type |-> Text("usage"), usage |-> Obj([model |-> Text("m1"), cost |-> Num(3)])]),
    Obj([type |-> Text("metric"), metricType |-> Text("latency"), value |-> Num(120)]),
    Obj([type |-> Text("conversation"), sessionId |-> Text("s1"), data |-> Obj([email |-> Text("a@b")])]),
    Obj([type |-> Text("lead")]) }

AnyClient ==
  [emails |-> { Undefined, Str(NoEmail) } \cup StoredEmails, passwords |-> Passwords, ips |-> IPs,
   dbUps |-> BOOLEAN, loginHints |-> LoginHints,
   cookies |-> CookieChoices, hints |-> HintChoices, logBodies |-> LogBodies, maxWrites |-> MaxWrites]

(***************************************************************************)
(* POST /api/login, server.js:361.                                         *)
(***************************************************************************)
\* A handler that sets the session cookie before it compares the password.
loginCookieFirst(body, dbUp, found, t) ==
  IF ~Truthy(body.email) \/ body.password = "" THEN ErrorResponse(400, "missing_fields")
  ELSE IF ~dbUp THEN ErrorResponse(500, "server_error")
  ELSE IF found = <<>> THEN ErrorResponse(401, "invalid_credentials")
  ELSE LET cookie == setSessionCookie([adminUserId |-> found[1].id, tenantId |-> found[1].tenantId,
                                       email |-> found[1].email], t)
       IN  IF ~bcryptCompare(body.password, found[1].passwordHash)
           THEN Response(401, [error |-> "invalid_credentials"], cookie, FALSE)
           ELSE Response(200, [ok |-> TRUE, tenantId |-> found[1].tenantId], cookie, FALSE)

\* The handler, given the row the lookup returned.
login(body, dbUp, found, t) ==
  IF ~Truthy(body.email) \/ body.password = "" THEN ErrorResponse(400, "missing_fields")
  ELSE IF ~dbUp THEN ErrorResponse(500, "server_error")
  ELSE IF found = <<>> THEN ErrorResponse(401, "invalid_credentials")
  ELSE IF ~bcryptCompare(body.password, found[1].passwordHash) THEN ErrorResponse(401, "invalid_credentials")
  ELSE Response(200, [ok |-> TRUE, tenantId |-> found[1].tenantId],
                setSessionCookie([adminUserId |-> found[1].id, tenantId |-> found[1].tenantId,
                                  email |-> found[1].email], t),
                FALSE)

Login(c) ==
  \E email \in c.emails, password \in c.passwords, ip \in c.ips, dbUp \in c.dbUps, hints \in c.loginHints :
    \E found \in findUnique(adminUsers, toLowerCase(IF email.t = "string" THEN email.v ELSE <<>>)) :
      LET body == [email |-> email, password |-> password]
          rs == login(body, dbUp, found, now)
          toks == { rs.setCookie[i] : i \in 1..Len(rs.setCookie) }
          fails == IF failStreak.ip = ip THEN failStreak.n ELSE 0
      IN  /\ Cardinality(issued \cup toks) <= MaxTokens
          /\ Answer(Request("POST /api/login", <<>>, <<>>, body, hints, ip, dbUp),
                    Outcome(rs, stateByTenant, <<>>))
          /\ issued' = issued \cup toks
          /\ failStreak' = IF rs.status = 401
                           THEN [ip |-> ip, n |-> IF fails < LoginFailLimit THEN fails + 1 ELSE fails]
                           ELSE [ip |-> "ip1", n |-> 0]
          /\ UNCHANGED <<now, tenants, adminUsers, loggedOut, wrote, script, customerKey, page>>

(***************************************************************************)
(* The session endpoints.                                                  *)
(***************************************************************************)
\* POST /api/logout, server.js:391
Logout(c) ==
  \E cookies \in c.cookies :
    /\ Answer(Request("POST /api/logout", cookies, <<>>, <<>>, NoHints, "ip1", TRUE),
              requireAuth(cookies, now, stateByTenant,
                          Outcome(Response(200, [ok |-> TRUE], <<>>, TRUE), stateByTenant, <<>>)))
    /\ loggedOut' = IF readSession(cookies, now) = <<>> THEN loggedOut ELSE loggedOut \cup { cookies[1] }
    /\ UNCHANGED <<now, tenants, adminUsers, issued, failStreak, wrote, script, customerKey, page>>

\* GET /api/me, server.js:397
Me(c) ==
  \E cookies \in c.cookies :
    /\ Answer(Request("GET /api/me", cookies, <<>>, <<>>, NoHints, "ip1", TRUE),
              requireAuth(cookies, now, stateByTenant,
                          Outcome(Response(200, readSession(cookies, now), <<>>, FALSE), stateByTenant, <<>>)))
    /\ UNCHANGED <<now, tenants, adminUsers, issued, failStreak, loggedOut, wrote, script, customerKey, page>>

\* What comes of the rejected promise of an async handler without a try: the
\* request is left without an answer, or the process ends on the unhandled
\* rejection and its memory is lost, or Express (from version 5) answers with its
\* error page.  Which one depends on the versions of Node and Express installed.
TenantsFailures(sbt) ==
  { Outcome(NoResponse, sbt, <<>>), Outcome(NoResponse, << >>, <<>>), Outcome(Thrown, sbt, <<>>) }

\* GET /api/tenants, server.js:415.  The handler awaits the store outside any try.
TenantsList(c) ==
  \E cookies \in c.cookies, dbUp \in c.dbUps :
    \E handled \in IF dbUp
                    THEN { Outcome(Response(200, findManyTenants(tenants), <<>>, FALSE), stateByTenant, <<>>) }
                    ELSE TenantsFailures(stateByTenant) :
      /\ Answer(Request("GET /api/tenants", cookies, <<>>, <<>>, NoHints, "ip1", dbUp),
                requireAuth(cookies, now, stateByTenant, handled))
      /\ UNCHANGED <<now, tenants, adminUsers, issued, failStreak, loggedOut, wrote, script, customerKey, page>>

(***************************************************************************)
(* The portal's read endpoints, server.js:427 and 501-546.  Each resolves  *)
(* the tenant of the session and reads that tenant's state, which          *)
(* getTenantState creates when it is not there.                            *)
(***************************************************************************)
ReadBody(route, state, t) ==
  CASE route = "GET /api/portal/premium" -> premium(state, t)
    [] route = "GET /api/portal/metrics" -> metrics(state, t)
    [] route = "GET /api/portal/events" -> state.events
    [] route = "GET /api/portal/errors" -> state.errors
    [] route = "GET /api/portal/usage" -> [current |-> state.usage, history |-> state.usages]
    [] route = "GET /api/portal/metrics-log" -> state.metrics
    [] route = "GET /api/portal/conversations" -> state.conversations

portalGet(route, user, hints, sbt, t) ==
  LET tenant == resolveAdminTenant(user, hints)
      sbt2 == getTenantState(sbt, tenant, t)
  IN  Outcome(Response(200, ReadBody(route, sbt2[tenant], t), <<>>, FALSE), sbt2, <<tenant>>)

PortalGet(route, c) ==
  \E cookies \in c.cookies, hints \in c.hints :
    /\ Answer(Request(route, cookies, <<>>, <<>>, hints, "ip1", TRUE),
              requireAuth(cookies, now, stateByTenant,
                          portalGet(route, readSession(cookies, now), hints, stateByTenant, now)))
    /\ UNCHANGED <<now, tenants, adminUsers, issued, failStreak, loggedOut, wrote, script, customerKey, page>>

PortalPremium(c) == PortalGet("GET /api/portal/premium", c)
PortalMetrics(c) == PortalGet("GET /api/portal/metrics", c)
PortalEvents(c) == PortalGet("GET /api/portal/events", c)
PortalErrors(c) == PortalGet("GET /api/portal/errors", c)
PortalUsage(c) == PortalGet("GET /api/portal/usage", c)
PortalMetricsLog(c) == PortalGet("GET /api/portal/metrics-log", c)
PortalConversations(c) == PortalGet("GET /api/portal/conversations", c)

\* GET /api/portal/health, server.js:529: behind app.use('/api/portal', requireAuth)
PortalHealth(c) ==
  \E cookies \in c.cookies :
    /\ Answer(Request("GET /api/portal/health", cookies, <<>>, <<>>, NoHints, "ip1", TRUE),
              requireAuth(cookies, now, stateByTenant,
                          Outcome(Response(200, [ok |-> TRUE, ts |-> now], <<>>, FALSE), stateByTenant, <<>>)))
    /\ UNCHANGED <<now, tenants, adminUsers, issued, failStreak, loggedOut, wrote, script, customerKey, page>>

(***************************************************************************)
(* The portal's ingestion endpoints, server.js:549-610.                    *)
(***************************************************************************)
\* The routine a log call runs on the tenant's state: the state it leaves and
\* whether it threw.
Ran(state) == [state |-> state, threw |-> FALSE]

\* A switch whose default branch stores the call as an event.
dispatchDefaultEvent(state, body, t) ==
  LET type == Get(body, "type")
  IN  CASE type = Text("event") -> Ran(addEvent(state, Get(body, "role"), Get(body, "message"), t))
        [] type = Text("error") -> Ran(addError(state, Get(body, "user"), Get(body, "message"), t))
        [] type = Text("usage") -> Ran(addUsage(state, Get(body, "usage"), t))
        [] type = Text("metric") -> Ran(addMetric(state, Get(body, "metricType"), Get(body, "value"), t))
        [] type = Text("conversation") -> addConversation(state, Get(body, "sessionId"), Get(body, "data"), t)
        [] OTHER -> Ran(addEvent(state, Get(body, "role"), Get(body, "message"), t))

\* server.js:554, the switch on type
dispatch(state, body, t) ==
  LET type == Get(body, "type")
  IN  CASE type = Text("event") -> Ran(addEvent(state, Get(body, "role"), Get(body, "message"), t))
        [] type = Text("error") -> Ran(addError(state, Get(body, "user"), Get(body, "message"), t))
        [] type = Text("usage") -> Ran(addUsage(state, Get(body, "usage"), t))
        [] type = Text("metric") -> Ran(addMetric(state, Get(body, "metricType"), Get(body, "value"), t))
        [] type = Text("conversation") -> addConversation(state, Get(body, "sessionId"), Get(body, "data"), t)
        [] OTHER -> Ran(state)

\* The routine of each endpoint, from the request's query and body.
Routine(route, state, query, body, t) ==
  CASE route = "POST /api/portal/log" -> dispatch(state, body, t)
    [] route = "POST /api/portal/log-event" -> Ran(addEvent(state, Get(query, "role"), Get(body, "message"), t))
    [] route = "POST /api/portal/log-error" -> Ran(addError(state, Get(query, "user"), Get(body, "message"), t))
    [] route = "POST /api/portal/log-usage" -> Ran(addUsage(state, body, t))
    [] route = "POST /api/portal/log-metric" -> Ran(addMetric(state, Get(query, "type"), Get(body, "value"), t))
    [] route = "POST /api/portal/log-conversation" -> addConversation(state, Get(query, "sessionId"), body, t)

portalPost(route, user, hints, query, body, sbt, t) ==
  LET tenant == resolveAdminTenant(user, hints)
      sbt2 == getTenantState(sbt, tenant, t)
      ran == Routine(route, sbt2[tenant], query, body, t)
  IN  Outcome(IF ran.threw THEN Thrown ELSE Ok, [sbt2 EXCEPT ![tenant] = ran.state], <<tenant>>)

\* The list of the tenant's state a log call adds to, "" when it adds to none.
KindOf(route, body) ==
  LET type == Get(body, "type")
      kind == CASE route = "POST /api/portal/log-event" -> "event"
                [] route = "POST /api/portal/log-error" -> "error"
                [] route = "POST /api/portal/log-usage" -> "usage"
                [] route = "POST /api/portal/log-metric" -> "metric"
                [] route = "POST /api/portal/log-conversation" -> "conversation"
                [] OTHER -> IF type.t = "text" THEN type.v ELSE ""
  IN  IF kind \in {"event", "error", "usage", "metric", "conversation"} THEN kind ELSE ""

PortalPost(route, queries, bodies, c) ==
  \E cookies \in c.cookies, hints \in c.hints, query \in queries, body \in bodies :
    LET out == requireAuth(cookies, now, stateByTenant,
                           portalPost(route, readSession(cookies, now), hints, query, body, stateByTenant, now))
    IN  /\ Len(wrote) < c.maxWrites
        /\ Answer(Request(route, cookies, query, body, hints, "ip1", TRUE), out)
        /\ wrote' = IF out.tenant # <<>>
                    THEN Append(wrote, [tenantId |-> readSession(cookies, now)[1].tenantId,
                                        key |-> out.tenant[1], kind |-> KindOf(route, body),
                                        route |-> route, query |-> query, body |-> body, at |-> now,
                                        status |-> out.resp.status])
                    ELSE wrote
        /\ UNCHANGED <<now, tenants, adminUsers, issued, failStreak, loggedOut, script, customerKey, page>>

NoQuery == Obj(<< >>)

PortalLog(c) == PortalPost("POST /api/portal/log", { NoQuery }, c.logBodies, c)

PortalLogEvent(c) ==
  PortalPost("POST /api/portal/log-event", { Obj([role |-> Text("bot")]) }, { Obj([message |-> Text("hello")]) }, c)

PortalLogError(c) ==
  PortalPost("POST /api/portal/log-error", { Obj([user |-> Text("u1")]) }, { Obj([message |-> Text("boom")]) }, c)

PortalLogUsage(c) ==
  PortalPost("POST /api/portal/log-usage", { NoQuery },
             { Obj([model |-> Text("m1"), costUSD |-> Num(2), breakdown |-> Obj([inputCost |-> Num(1)])]) }, c)

PortalLogMetric(c) ==
  PortalPost("POST /api/portal/log-metric", { Obj([type |-> Text("success")]) }, { Obj([value |-> Num(1)]) }, c)

PortalLogConversation(c) ==
  PortalPost("POST /api/portal/log-conversation", { Obj([sessionId |-> Text("s1")]) },
             { Obj([phone |-> Text("555"), tags |-> Arr(<<Text("roof")>>)]) }, c)

(***************************************************************************)
(* The system.                                                             *)
(***************************************************************************)
Next ==
  \/ Seed
  \/ Tick
  \/ Finish
  \/ Login(AnyClient)
  \/ Logout(AnyClient)
  \/ Me(AnyClient)
  \/ TenantsList(AnyClient)
  \/ PortalPremium(AnyClient)
  \/ PortalMetrics(AnyClient)
  \/ PortalEvents(AnyClient)
  \/ PortalErrors(AnyClient)
  \/ PortalUsage(AnyClient)
  \/ PortalMetricsLog(AnyClient)
  \/ PortalConversations(AnyClient)
  \/ PortalHealth(AnyClient)
  \/ PortalLog(AnyClient)
  \/ PortalLogEvent(AnyClient)
  \/ PortalLogError(AnyClient)
  \/ PortalLogUsage(AnyClient)
  \/ PortalLogMetric(AnyClient)
  \/ PortalLogConversation(AnyClient)

Spec == Init /\ [][Next]_vars

(***************************************************************************)
(* The login specification: every store, the seed, clients that try every  *)
(* email and password from two addresses against a store that may fail.    *)
(* The clock stands still and the portal is not called.                    *)
(***************************************************************************)
LoginClient == [AnyClient EXCEPT !.cookies = HonestCookies]

NextLogin ==
  \/ Seed
  \/ Finish
  \/ Login(LoginClient)
  \/ Logout(LoginClient)
  \/ Me(LoginClient)
  \/ TenantsList(LoginClient)

SpecLogin == Init /\ [][NextLogin]_vars

(***************************************************************************)
(* The session specification: one account, clients that log in with the    *)
(* right password and then call every protected endpoint with every kind   *)
(* of cookie while the clock runs past the expiry of their tokens.         *)
(***************************************************************************)
SessionClient ==
  [emails |-> StoredEmails, passwords |-> {"pw1"}, ips |-> {"ip1"}, dbUps |-> {TRUE},
   loginHints |-> { NoHints }, cookies |-> CookieChoices, hints |-> { NoHints },
   logBodies |-> { Obj([type |-> Text("event"), message |-> Text("hello")]) }, maxWrites |-> MaxWrites]

InitSession == InitOf({ {Bob} })

NextSession ==
  \/ Tick
  \/ Finish
  \/ Login(SessionClient)
  \/ Logout(SessionClient)
  \/ Me(SessionClient)
  \/ TenantsList(SessionClient)
  \/ PortalPremium(SessionClient)
  \/ PortalMetrics(SessionClient)
  \/ PortalEvents(SessionClient)
  \/ PortalErrors(SessionClient)
  \/ PortalUsage(SessionClient)
  \/ PortalMetricsLog(SessionClient)
  \/ PortalConversations(SessionClient)
  \/ PortalHealth(SessionClient)
  \/ PortalLog(SessionClient)
  \/ PortalLogEvent(SessionClient)
  \/ PortalLogError(SessionClient)
  \/ PortalLogUsage(SessionClient)
  \/ PortalLogMetric(SessionClient)
  \/ PortalLogConversation(SessionClient)

SpecSession == InitSession /\ [][NextSession]_vars

(***************************************************************************)
(* The tenancy specification: two accounts, clients with sessions that     *)
(* read and write the portal while naming other tenants in the request.    *)
(* The clock stands still.                                                 *)
(***************************************************************************)
TenancyClient ==
  [emails |-> StoredEmails, passwords |-> {"pw1"}, ips |-> {"ip1"}, dbUps |-> {TRUE},
   loginHints |-> { NoHints }, cookies |-> HonestCookies, hints |-> HintChoices,
   logBodies |-> LogBodies, maxWrites |-> MaxWrites]

InitTenancy == InitOf(Stores \ { {} })

NextTenancy ==
  \/ Finish
  \/ Login(TenancyClient)
  \/ PortalPremium(TenancyClient)
  \/ PortalMetrics(TenancyClient)
  \/ PortalEvents(TenancyClient)
  \/ PortalErrors(TenancyClient)
  \/ PortalUsage(TenancyClient)
  \/ PortalMetricsLog(TenancyClient)
  \/ PortalConversations(TenancyClient)
  \/ PortalHealth(TenancyClient)
  \/ PortalLog(TenancyClient)
  \/ PortalLogEvent(TenancyClient)
  \/ PortalLogError(TenancyClient)
  \/ PortalLogUsage(TenancyClient)
  \/ PortalLogMetric(TenancyClient)
  \/ PortalLogConversation(TenancyClient)

SpecTenancy == InitTenancy /\ [][NextTenancy]_vars

(***************************************************************************)
(* The ingestion specification: one account whose session logs every kind  *)
(* of record, well-formed or not, through every ingestion endpoint and     *)
(* reads it back.  The clock stands still.                                 *)
(***************************************************************************)
IngestBodies ==
  LogBodies \cup
  { Obj([message |-> Text("hello")]),
    Obj([type |-> Text("bogus"), message |-> Text("hello")]),
    Obj([type |-> Text("lead"), value |-> Obj([email |-> Text("a@b"), phone |-> Text("555")])]),
    Obj([type |-> Text("conversation"), sessionId |-> Text("s2")]) }

IngestClient ==
  [emails |-> StoredEmails, passwords |-> {"pw1"}, ips |-> {"ip1"}, dbUps |-> {TRUE},
   loginHints |-> { NoHints }, cookies |-> HonestCookies, hints |-> { NoHints },
   logBodies |-> IngestBodies, maxWrites |-> MaxLogged]

InitIngest == InitOf({ {Bob} })

NextIngest ==
  \/ Finish
  \/ Login(IngestClient)
  \/ PortalPremium(IngestClient)
  \/ PortalMetrics(IngestClient)
  \/ PortalEvents(IngestClient)
  \/ PortalErrors(IngestClient)
  \/ PortalUsage(IngestClient)
  \/ PortalMetricsLog(IngestClient)
  \/ PortalConversations(IngestClient)
  \/ PortalLog(IngestClient)
  \/ PortalLogEvent(IngestClient)
  \/ PortalLogError(IngestClient)
  \/ PortalLogUsage(IngestClient)
  \/ PortalLogMetric(IngestClient)
  \/ PortalLogConversation(IngestClient)

SpecIngest == InitIngest /\ [][NextIngest]_vars

(***************************************************************************)
(* The capacity specification: one account whose session logs latency      *)
(* metrics, one more than the metric log holds, and reads them back.       *)
(***************************************************************************)
CapacityClient ==
  [IngestClient EXCEPT
     !.logBodies = { Obj([type |-> Text("metric"), metricType |-> Text("latency"), value |-> Num(120)]) },
     !.maxWrites = MetricsCap + 1]

NextCapacity ==
  \/ Finish
  \/ Login(CapacityClient)
  \/ PortalMetricsLog(CapacityClient)
  \/ PortalLog(CapacityClient)

SpecCapacity == InitIngest /\ [][NextCapacity]_vars

(***************************************************************************)
(* The usage specification: one account whose session logs usage payloads  *)
(* of every shape (absent, empty, with one or both names of a cost, with a  *)
(* null or a non-object breakdown) and reads the usage back.                *)
(***************************************************************************)
UsagePayloads ==
  { Null,
    Obj(<< >>),
    Obj([model |-> Text("m1"), costUSD |-> Num(7), cost |-> Num(8), prompt_tokens |-> Num(10),
         breakdown |-> Obj([inputCost |-> Num(1), promptUSD |-> Num(2), outputCost |-> Num(0),
                            completionUSD |-> Num(4), cachedUSD |-> Num(5), total |-> Num(9)])]),
    Obj([costUSD |-> Num(7), cost |-> Num(8),
         breakdown |-> Obj([inputCost |-> Null, promptUSD |-> Num(2), cachedCost |-> Num(3)])]),
    Obj([cost |-> Num(8), breakdown |-> Null, cached_tokens |-> Null]),
    Obj([costUSD |-> Num(0), cost |-> Num(8), completion_tokens |-> Num(0)]),
    Obj([breakdown |-> Text("raw"), user |-> Text("u1")]) }

UsageBodies ==
  { Obj([type |-> Text("usage")]) } \cup { Obj([type |-> Text("usage"), usage |-> u]) : u \in UsagePayloads }

UsageClient == [IngestClient EXCEPT !.logBodies = UsageBodies]

NextUsage ==
  \/ Finish
  \/ Login(UsageClient)
  \/ PortalUsage(UsageClient)
  \/ PortalLog(UsageClient)
  \/ PortalLogUsage(UsageClient)

SpecUsage == InitIngest /\ [][NextUsage]_vars

(***************************************************************************)
(* The key-gated server, server.js:1-295: no sessions; a shared key guards  *)
(* /portal and /api/portal, and a handler takes the tenant from the query.  *)
(***************************************************************************)
Unauthorized == Response(401, "Unauthorized", <<>>, FALSE)

\* server.js:10.  The handler's outcome is that of next().
gate(key, query, header, sbt, handled) ==
  IF ~Truthy(key) THEN handled
  ELSE IF Or(Get(query, "key"), header) = key THEN handled
  ELSE Outcome(Unauthorized, sbt, <<>>)

\* server.js:26, 112 and 182: the handlers behind the gate
gated(route, query, body, sbt, t) ==
  LET tenant == Or(Get(query, "tenant"), Str(DefaultTenant)).v
      sbt2 == getTenantState(sbt, tenant, t)
  IN  CASE route = "GET /portal" -> Outcome(Response(200, "portal.html", <<>>, FALSE), sbt, <<>>)
        [] route = "GET /api/portal/events" ->
             Outcome(Response(200, sbt2[tenant].events, <<>>, FALSE), sbt2, <<tenant>>)
        [] route = "POST /api/portal/log-event" ->
             Outcome(Ok, [sbt2 EXCEPT ![tenant] = addEvent(@, Get(query, "role"), Get(body, "message"), t)],
                     <<tenant>>)

SharedKey == Text("k1")
KeyChoices == { Undefined, SharedKey, Text("bad") }
GateQueries ==
  { Obj(<< >>) } \cup { Obj([key |-> k]) : k \in KeyChoices \ { Undefined } }
  \cup { Obj([tenant |-> Str(Acme)]) } \cup { Obj([tenant |-> Str(Acme), key |-> k]) : k \in KeyChoices \ { Undefined } }

Gated(route, body) ==
  \E query \in GateQueries, header \in KeyChoices :
    LET out == gate(customerKey, query, header, stateByTenant, gated(route, query, body, stateByTenant, now))
    IN  /\ Len(wrote) < MaxLogged
        /\ Answer([route |-> route, cookies |-> <<>>, query |-> query, body |-> body, hints |-> NoHints,
                   ip |-> "ip1", dbUp |-> TRUE, at |-> now, priorFails |-> 0, xCustomerKey |-> header],
                  out)
        /\ wrote' = IF route = "POST /api/portal/log-event" /\ out.tenant # <<>>
                    THEN Append(wrote, [tenantId |-> Str(out.tenant[1]), key |-> out.tenant[1], kind |-> "event",
                                        route |-> route, query |-> query, body |-> body, at |-> now,
                                        status |-> out.resp.status])
                    ELSE wrote
        /\ UNCHANGED <<now, tenants, adminUsers, issued, failStreak, loggedOut, script, customerKey, page>>

GatedPortal == Gated("GET /portal", <<>>)
GatedEvents == Gated("GET /api/portal/events", <<>>)
GatedLogEvent == Gated("POST /api/portal/log-event", Obj([message |-> Text("hello")]))

InitGate ==
  /\ now = 0
  /\ adminUsers = {}
  /\ tenants = {}
  /\ stateByTenant = << >>
  /\ issued = {}
  /\ failStreak = [ip |-> "ip1", n |-> 0]
  /\ loggedOut = {}
  /\ wrote = <<>>
  /\ script = NotRun
  /\ customerKey \in { Undefined, SharedKey }
  /\ page = NoPage
  /\ req = Idle
  /\ resp = NoResponse
  /\ touched = {}
  /\ resolved = <<>>

NextGate ==
  \/ Finish
  \/ GatedPortal
  \/ GatedEvents
  \/ GatedLogEvent

SpecGate == InitGate /\ [][NextGate]_vars

(***************************************************************************)
(* scripts/encrypt-tenant-secrets.js: encrypt the secrets the tenants hold  *)
(* in the clear.  A secret column holds null, a string, or (googleTokens)   *)
(* a JSON object; an encrypted string is an envelope around its plaintext.  *)
(* The helpers of utils/kms are taken from their description: encrypt wraps *)
(* a string in an envelope, isEncrypted recognises an envelope, hasKey      *)
(* tells whether KMS_MASTER_KEY is set.                                     *)
(***************************************************************************)
\* The envelope keeps what it wraps, so an envelope around an envelope shows.
encrypt(x) == [t |-> "envelope", v |-> x]

isEncrypted(x) == x.t = "envelope"

hasKey(masterKey) == Truthy(masterKey)

IsString(x) == x.t \in {"text", "envelope"}

GoogleTokens == Obj([access_token |-> Text("tok")])

\* JSON.stringify of the objects a googleTokens column holds
JSONstringify(o) ==
  IF o = GoogleTokens THEN Text("{\"access_token\":\"tok\"}") ELSE Text("{}")

\* A loop body that encrypts every non-empty secret, encrypted or not.
dataOfAll(t) ==
  LET filled == { f \in {"smtpPass", "openaiKey", "googleClientSecret", "googleTokens"} : Truthy(t[f]) }
  IN  [f \in filled |->
         IF f = "googleTokens" /\ ~IsString(t.googleTokens) THEN encrypt(JSONstringify(t.googleTokens))
         ELSE encrypt(t[f])]

\* encrypt-tenant-secrets.js:18-28, the data of the update of tenant t
dataOf(t) ==
  LET plain == { f \in {"smtpPass", "openaiKey", "googleClientSecret"} : Truthy(t[f]) /\ ~isEncrypted(t[f]) }
      tokens == IF Truthy(t.googleTokens) /\ ~IsString(t.googleTokens) THEN {"googleTokens"}
                ELSE IF Truthy(t.googleTokens) /\ IsString(t.googleTokens) /\ ~isEncrypted(t.googleTokens)
                     THEN {"googleTokens"}
                     ELSE {}
  IN  [f \in plain \cup tokens |->
         IF f = "googleTokens" /\ ~IsString(t.googleTokens) THEN encrypt(JSONstringify(t.googleTokens))
         ELSE encrypt(t[f])]

\* prisma.tenant.update({ where: { id }, data })
tenantUpdate(rows, id, data) ==
  { IF r.id # id THEN r
    ELSE [r EXCEPT !.smtpPass = IF "smtpPass" \in DOMAIN data THEN data.smtpPass ELSE @,
                   !.openaiKey = IF "openaiKey" \in DOMAIN data THEN data.openaiKey ELSE @,
                   !.googleClientSecret = IF "googleClientSecret" \in DOMAIN data THEN data.googleClientSecret ELSE @,
                   !.googleTokens = IF "googleTokens" \in DOMAIN data THEN data.googleTokens ELSE @]
    : r \in rows }

\* findMany without orderBy: the rows in an order of the store's choosing
Orders(rows) ==
  { q \in [1..Cardinality(rows) -> rows] : \A i, j \in 1..Cardinality(rows) : i # j => q[i] # q[j] }

\* A start that reads the tenants before it looks for the key.
startReadFirst(run, masterKey, rows, dbUp) ==
  LET began == [run EXCEPT !.runs = @ + 1, !.hasKey = hasKey(masterKey), !.reads = 1, !.todo = <<>>,
                           !.before = tenants, !.updates = <<>>, !.rejected = <<>>,
                           !.prior = run.pc]
  IN  IF ~dbUp THEN [began EXCEPT !.pc = "failed"]
      ELSE IF ~hasKey(masterKey) THEN [began EXCEPT !.pc = "failed"]
      ELSE [began EXCEPT !.pc = "loop", !.todo = rows]

\* encrypt-tenant-secrets.js:8-15: the key check, then the read of the tenants
start(run, masterKey, rows, dbUp) ==
  LET began == [run EXCEPT !.runs = @ + 1, !.hasKey = hasKey(masterKey), !.reads = 0, !.todo = <<>>,
                           !.before = tenants, !.updates = <<>>, !.rejected = <<>>,
                           !.prior = run.pc]
  IN  IF ~hasKey(masterKey) THEN [began EXCEPT !.pc = "failed"]
      ELSE IF ~dbUp THEN [began EXCEPT !.pc = "failed", !.reads = 1]
      ELSE [began EXCEPT !.pc = "loop", !.reads = 1, !.todo = rows]

MasterKeys == { Undefined, Text("mk1") }

\* The script is started: node scripts/encrypt-tenant-secrets.js
ScriptStart ==
  \E masterKey \in MasterKeys, rows \in Orders(tenants), dbUp \in BOOLEAN :
    /\ script.pc \in {"none", "done", "failed"}
    /\ script.runs < MaxRuns
    /\ script' = start(script, masterKey, rows, dbUp)
    /\ UNCHANGED <<now, tenants, adminUsers, stateByTenant, issued, req, resp, touched, resolved,
                   failStreak, loggedOut, wrote, customerKey, page>>

\* encrypt-tenant-secrets.js:17-33: one turn of the loop.  The update is
\* awaited; when it is rejected the script ends in its catch.
ScriptTenant ==
  \E dbUp \in BOOLEAN :
    LET t == Head(script.todo)
        data == dataOf(t)
    IN  /\ script.pc = "loop"
        /\ script.todo # <<>>
        /\ IF DOMAIN data = {}
           THEN /\ script' = [script EXCEPT !.todo = Tail(@)]
                /\ UNCHANGED tenants
           ELSE IF dbUp
           THEN /\ script' = [script EXCEPT !.todo = Tail(@), !.updates = Append(@, t.id)]
                /\ tenants' = tenantUpdate(tenants, t.id, data)
           ELSE /\ script' = [script EXCEPT !.todo = Tail(@), !.rejected = <<t.id>>, !.pc = "failed"]
                /\ UNCHANGED tenants
        /\ UNCHANGED <<now, adminUsers, stateByTenant, issued, req, resp, touched, resolved,
                       failStreak, loggedOut, wrote, customerKey, page>>

\* encrypt-tenant-secrets.js:34-35: the loop is over, 'Done.'
ScriptDone ==
  /\ script.pc = "loop"
  /\ script.todo = <<>>
  /\ script' = [script EXCEPT !.pc = "done"]
  /\ UNCHANGED <<now, tenants, adminUsers, stateByTenant, issued, req, resp, touched, resolved,
                 failStreak, loggedOut, wrote, customerKey, page>>

SecretRow(id, smtpPass, openaiKey, googleClientSecret, googleTokens) ==
  [TenantRow(id, id) EXCEPT !.smtpPass = smtpPass, !.openaiKey = openaiKey,
                            !.googleClientSecret = googleClientSecret, !.googleTokens = googleTokens]

AcmeRow == SecretRow(Acme, Text("p1"), Null, Text(""), GoogleTokens)
BetaRow == SecretRow(Beta, Null, encrypt(Text("sk1")), Null, encrypt(Text("raw")))
DottedRow == SecretRow(Dotted, encrypt(Text("p2")), Text("sk2"), Text("cs2"), Text("raw"))

SecretStores == { {}, {BetaRow}, {AcmeRow, DottedRow}, {AcmeRow, BetaRow, DottedRow} }

InitScript ==
  /\ now = 0
  /\ adminUsers = {}
  /\ tenants \in SecretStores
  /\ stateByTenant = << >>
  /\ issued = {}
  /\ failStreak = [ip |-> "ip1", n |-> 0]
  /\ loggedOut = {}
  /\ wrote = <<>>
  /\ script = NotRun
  /\ customerKey = Undefined
  /\ page = NoPage
  /\ req = Idle
  /\ resp = NoResponse
  /\ touched = {}
  /\ resolved = <<>>

NextScript ==
  \/ ScriptStart
  \/ ScriptTenant
  \/ ScriptDone

SpecScript == InitScript /\ [][NextScript]_vars

(***************************************************************************)
(* static/premium.js: the page loads the premium data once and then every  *)
(* 15 seconds.  calls[k] is where the k-th call of loadPremiumData stands:  *)
(* "fetch" and "json" while it awaits the response and its body,           *)
(* "rendered", "failed" or "aborted" once its finally block has run.  An   *)
(* AbortController is named by the call that made it, 0 is null.  The data *)
(* a request brings is named by its call.  One action is one turn of the   *)
(* event loop: a callback and the microtasks it leaves.                    *)
(***************************************************************************)
Sections == {"lead-funnel", "convo-viewer", "topic-analysis"}

Error(name, message) == [name |-> name, message |-> message]
AbortError == Error("AbortError", "The user aborted a request.")

\* premium.js:24
setLoading(p, el, on) == [p EXCEPT !.loading = IF on THEN @ \cup {el} ELSE @ \ {el}]

\* premium.js:42
setError(p, msg) == [p EXCEPT !.error = msg]

\* premium.js:199-207, the catch and the finally of call k
catchFinally(p, k, err) ==
  LET caught == IF err.name # "AbortError"
                THEN setError(p, IF err.message # "" THEN err.message ELSE "Failed to load premium data.")
                ELSE p
      ended == [caught EXCEPT !.inFlight = 0,
                              !.calls[k] = IF err.name = "AbortError" THEN "aborted" ELSE "failed"]
  IN  setLoading(setLoading(setLoading(ended, "lead-funnel", FALSE), "convo-viewer", FALSE),
                 "topic-analysis", FALSE)

\* inFlight.abort(): the fetch of that controller rejects with an AbortError,
\* and the call that awaits it runs its catch and finally as a microtask.
abort(p, c) == IF c = 0 THEN p ELSE catchFinally(p, c, AbortError)

\* premium.js:137-152, loadPremiumData up to its first await, then the
\* microtask of the call it aborted.  TENANT is never empty (premium.js:8).
loadPremiumData(p) ==
  LET k == Len(p.calls) + 1
      old == p.inFlight
      cleared == setError(p, "")
      made == [cleared EXCEPT !.inFlight = k, !.calls = Append(@, "fetch")]
      shown == setLoading(setLoading(setLoading(made, "lead-funnel", TRUE), "convo-viewer", TRUE),
                          "topic-analysis", TRUE)
      tried == IF p.KEY = "" THEN catchFinally(shown, k, Error("Error", "Missing TENANT/KEY")) ELSE shown
  IN  abort(tried, old)

\* premium.js:150-153: the response of call k has come, or the fetch failed
fetched(p, k, res) ==
  CASE res = "ok" -> [p EXCEPT !.calls[k] = "json"]
    [] res = "not ok" -> catchFinally(p, k, Error("Error", "Premium API unavailable (500)"))
    [] res = "rejected" -> catchFinally(p, k, Error("TypeError", "Failed to fetch"))

\* premium.js:155-207: the body of call k has been read and is rendered, or
\* it was no JSON
parsed(p, k, res) ==
  CASE res = "ok" ->
         LET ended == [p EXCEPT !.lastData = k, !.inFlight = 0, !.calls[k] = "rendered"]
         IN  setLoading(setLoading(setLoading(ended, "lead-funnel", FALSE), "convo-viewer", FALSE),
                        "topic-analysis", FALSE)
    [] res = "rejected" -> catchFinally(p, k, Error("SyntaxError", "Unexpected token"))

\* premium.js:232-234: the page after initPremium has run
Loaded(key) == [loadPremiumData([NoPage EXCEPT !.KEY = key]) EXCEPT !.pollTimer = TRUE]

\* premium.js:234: the interval timer fires
PollTick ==
  /\ page.pollTimer
  /\ Len(page.calls) < MaxCalls
  /\ page' = loadPremiumData(page)
  /\ UNCHANGED <<now, tenants, adminUsers, stateByTenant, issued, req, resp, touched, resolved,
                 failStreak, loggedOut, wrote, script, customerKey>>

\* The fetch of call k settles.
FetchSettles(k) ==
  /\ k \in 1..Len(page.calls)
  /\ page.calls[k] = "fetch"
  /\ \E res \in {"ok", "not ok", "rejected"} : page' = fetched(page, k, res)
  /\ UNCHANGED <<now, tenants, adminUsers, stateByTenant, issued, req, resp, touched, resolved,
                 failStreak, loggedOut, wrote, script, customerKey>>

\* res.json() of call k settles.
JsonSettles(k) ==
  /\ k \in 1..Len(page.calls)
  /\ page.calls[k] = "json"
  /\ \E res \in {"ok", "rejected"} : page' = parsed(page, k, res)
  /\ UNCHANGED <<now, tenants, adminUsers, stateByTenant, issued, req, resp, touched, resolved,
                 failStreak, loggedOut, wrote, script, customerKey>>

\* premium.js:235-238, beforeunload
Unload ==
  /\ page.pollTimer
  /\ page' = abort([page EXCEPT !.pollTimer = FALSE], page.inFlight)
  /\ UNCHANGED <<now, tenants, adminUsers, stateByTenant, issued, req, resp, touched, resolved,
                 failStreak, loggedOut, wrote, script, customerKey>>

InitPoller ==
  /\ now = 0
  /\ adminUsers = {}
  /\ tenants = {}
  /\ stateByTenant = << >>
  /\ issued = {}
  /\ failStreak = [ip |-> "ip1", n |-> 0]
  /\ loggedOut = {}
  /\ wrote = <<>>
  /\ script = NotRun
  /\ customerKey = Undefined
  /\ page \in { Loaded(key) : key \in {"", "k1"} }
  /\ req = Idle
  /\ resp = NoResponse
  /\ touched = {}
  /\ resolved = <<>>

NextPoller ==
  \/ PollTick
  \/ \E k \in 1..MaxCalls : FetchSettles(k)
  \/ \E k \in 1..MaxCalls : JsonSettles(k)
  \/ Unload

SpecPoller == InitPoller /\ [][NextPoller]_vars

\* Every fetch and every read of a body settles in the end.
FairPoller ==
  SpecPoller /\ \A k \in 1..MaxCalls : WF_vars(FetchSettles(k)) /\ WF_vars(JsonSettles(k))

(***************************************************************************)
(* Properties.  They are state predicates on the request being answered,   *)
(* its response and the server's state.                                    *)
(***************************************************************************)
LoginRoute == "POST /api/login"

ReadRoutes ==
  { "GET /api/portal/premium", "GET /api/portal/metrics", "GET /api/portal/events", "GET /api/portal/errors",
    "GET /api/portal/usage", "GET /api/portal/metrics-log", "GET /api/portal/conversations" }

WriteRoutes ==
  { "POST /api/portal/log", "POST /api/portal/log-event", "POST /api/portal/log-error",
    "POST /api/portal/log-usage", "POST /api/portal/log-metric", "POST /api/portal/log-conversation" }

ProtectedRoutes ==
  ReadRoutes \cup WriteRoutes \cup { "GET /api/portal/health", "GET /api/me", "GET /api/tenants", "POST /api/logout" }

\* The session of the request being answered, <<>> when it has none.
ReqSession == IF req.route \in ProtectedRoutes THEN readSession(req.cookies, req.at) ELSE <<>>

\* The request being answered is a portal call with a session.
PortalCall == req.route \in ReadRoutes \cup WriteRoutes /\ ReqSession # <<>>

\* The kinds of record a read endpoint returns.
KindsRead(route) ==
  CASE route = "GET /api/portal/events" -> {"event"}
    [] route = "GET /api/portal/errors" -> {"error"}
    [] route = "GET /api/portal/usage" -> {"usage"}
    [] route = "GET /api/portal/metrics-log" -> {"metric"}
    [] route = "GET /api/portal/conversations" -> {"conversation"}
    [] route = "GET /api/portal/premium" -> {"conversation"}
    [] route = "GET /api/portal/metrics" -> {"usage"}
    [] OTHER -> {}

\* C1: isolation.  A read endpoint answering a session of tenant B is never
\* served from the state that a write by a session of another tenant A put a
\* record of the kind it returns into; A and B are the tenant ids of the two
\* accounts as stored, ids that differ in letter case and the absent id included.
C1_Isolation ==
  (req.route \in ReadRoutes /\ ReqSession # <<>> /\ resp.status = 200) =>
    \A i \in 1..Len(wrote) :
      (wrote[i].kind \in KindsRead(req.route) /\ wrote[i].tenantId # ReqSession[1].tenantId)
        => wrote[i].key # resolved[1]

\* A cookie that is missing, tampered with (not a token the server issued) or expired.
InvalidCookie(cookies, t) ==
  \/ cookies = <<>>
  \/ cookies[1] \notin issued
  \/ t >= cookies[1].exp

\* C2: a request to a protected endpoint whose session cookie is missing,
\* expired or tampered has no session, is answered 401 auth_required, and no
\* tenant's state is created or changed.
C2_InvalidSessionRejected ==
  (req.route \in ProtectedRoutes /\ InvalidCookie(req.cookies, req.at)) =>
    /\ readSession(req.cookies, req.at) = <<>>
    /\ resp = AuthRequired
    /\ touched = {}
    /\ resolved = <<>>

\* An expired token of the server's own is turned away at an ingestion endpoint
\* while there is tenant state it could have changed.
C2_Witness ==
  /\ req.route = "POST /api/portal/log-event"
  /\ req.cookies # <<>>
  /\ req.cookies[1] \in issued
  /\ req.at >= req.cookies[1].exp
  /\ resp = AuthRequired
  /\ DOMAIN stateByTenant # {}

\* C3: a login request with the email of a stored account, as it is stored, and
\* a password matching its hash succeeds with a token that verifies and carries
\* the account's tenant; stated for the accounts whose email no other account has.
C3_LoginSucceeds ==
  \A u \in adminUsers :
    ( /\ req.route = LoginRoute
      /\ req.dbUp
      /\ req.body.email = Str(u.email)
      /\ bcryptCompare(req.body.password, u.passwordHash)
      /\ \A o \in adminUsers : o.email = u.email => o = u )
    => /\ resp.status = 200
       /\ resp.setCookie # <<>>
       /\ readSession(resp.setCookie, req.at) # <<>>
       /\ readSession(resp.setCookie, req.at)[1].tenantId = u.tenantId

\* The accounts the seed leaves.
SeededAdmins ==
  { u \in adminUsers : /\ u.tenantId = Str(DefaultTenant)
                       /\ u.email = AdminEmail
                       /\ bcryptCompare(AdminPassword, u.passwordHash) }

ServedFrom(key) ==
  /\ resolved = <<key>>
  /\ touched \subseteq {key}
  /\ key \in DOMAIN stateByTenant
  /\ req.route \in ReadRoutes => resp.body = ReadBody(req.route, stateByTenant[key], req.at)
  /\ (req.route \in WriteRoutes /\ resp.status = 200) => wrote[Len(wrote)].key = key

Reserved(sub) ==
  \/ sub \in { Www, <<"l", "o", "c", "a", "l", "h", "o", "s", "t">>, <<"a", "d", "m", "i", "n">> }
  \/ \A i \in 1..Len(sub) : sub[i] \in {"0", "1", "2", "3", "4", "5", "6", "7", "8", "9"}

\* The tenant the hints of a request name: the hint cookie, else the header,
\* else the hostname's subdomain unless reserved, else 'default'.
HintTenant(h) ==
  IF Truthy(h.cookie) THEN toLowerCase(StringOf(h.cookie))
  ELSE IF Truthy(h.header) THEN toLowerCase(StringOf(h.header))
  ELSE IF Truthy(h.subdomain) /\ ~Reserved(h.subdomain.v) THEN toLowerCase(StringOf(h.subdomain))
  ELSE DefaultTenant

\* C6: a portal request whose session names no tenant resolves to the tenant
\* of its hint cookie, else of its header, else of its hostname's subdomain
\* unless that is reserved, and to 'default' only when it carries none of them.
C6_HintFallback ==
  (PortalCall /\ ~Truthy(ReqSession[1].tenantId)) => resolved = << HintTenant(req.hints) >>

TenantChars ==
  { "a", "b", "c", "d", "e", "f", "g", "h", "i", "j", "k", "l", "m", "n", "o", "p", "q", "r", "s", "t",
    "u", "v", "w", "x", "y", "z", "0", "1", "2", "3", "4", "5", "6", "7", "8", "9", "_", "-" }

\* C7: the tenant a handler resolves, and every key of stateByTenant, is made
\* of the characters a-z, 0-9, _ and - only.
C7_NormalizedKeys ==
  \A k \in DOMAIN stateByTenant \cup { resolved[i] : i \in 1..Len(resolved) } :
    \A i \in 1..Len(k) : k[i] \in TenantChars

\* C8: a login attempt from an address that LoginFailLimit failed logins in a
\* row have just come from issues no session, whatever its email.
C8_LoginRateLimited ==
  (req.route = LoginRoute /\ req.priorFails >= LoginFailLimit) =>
    (resp.status # 200 /\ resp.setCookie = <<>>)

C10_SessionLifetime ==
  /\ \A k \in issued : k.exp = k.iat + 7 /\ k.iat <= now
  /\ loggedOut \subseteq issued
  /\ (req.route \in ProtectedRoutes /\ req.cookies # <<>> /\ req.cookies[1] \in issued) =>
       IF req.at < req.cookies[1].exp
       THEN /\ resp.status # 401
            /\ ReqSession # <<>>
            /\ ReqSession[1].adminUserId = req.cookies[1].payload.adminUserId
       ELSE resp = AuthRequired

\* A token that a logout was answered for still reads the portal.
C10_Witness ==
  /\ req.route = "GET /api/portal/events"
  /\ req.cookies # <<>>
  /\ req.cookies[1] \in loggedOut
  /\ resp.status = 200

\* The read endpoint of the list that records of a kind are kept in.
ListRoute(kind) ==
  CASE kind = "event" -> "GET /api/portal/events"
    [] kind = "error" -> "GET /api/portal/errors"
    [] kind = "usage" -> "GET /api/portal/usage"
    [] kind = "metric" -> "GET /api/portal/metrics-log"

ListKinds == {"event", "error", "usage", "metric"}

\* The list in the body of a read of that kind.
ListRead(kind, body) == IF kind = "usage" THEN body.history ELSE body

\* What identifies the record an ingestion call sent, and a record of a list.
Sent(w) ==
  LET general == w.route = "POST /api/portal/log"
  IN  CASE w.kind = "metric" ->
             << IF general THEN Get(w.body, "metricType") ELSE Get(w.query, "type"), Get(w.body, "value"), w.at >>
        [] w.kind = "event" -> << Get(w.body, "message"), w.at >>
        [] w.kind = "error" -> << IF general THEN Get(w.body, "user") ELSE Get(w.query, "user"), w.at >>
        [] w.kind = "usage" -> << Get(IF general THEN Get(w.body, "usage") ELSE w.body, "model"), w.at >>

Kept(kind, r) ==
  CASE kind = "metric" -> << r.type, r.value, r.at >>
    [] kind = "event" -> << r.message, r.at >>
    [] kind = "error" -> << r.user, r.at >>
    [] kind = "usage" -> << r.model, r.at >>

\* The calls that sent a record of that kind to the tenant, in order of arrival.
Arrivals(key, kind) ==
  LET mine(w) == w.key = key /\ w.kind = kind
  IN  SelectSeq(wrote, mine)

C12_BoundedLists ==
  \A k \in DOMAIN stateByTenant :
    /\ Len(stateByTenant[k].events) <= EventsCap
    /\ Len(stateByTenant[k].errors) <= ErrorsCap
    /\ Len(stateByTenant[k].usages) <= UsagesCap
    /\ Len(stateByTenant[k].metrics) <= MetricsCap
    /\ Len(stateByTenant[k].latSamples) <= MetricsCap
    /\ Len(stateByTenant[k].conversations) <= MetricsCap

\* C13: a POST /api/portal/log of type event, error, usage, metric, lead or
\* conversation that is answered 200 has stored its record where the read
\* endpoint of that resource shows it: at the head of the tenant's list, among
\* the tenant's conversations, or, for a lead with a value, among the leads
\* that premium counts.
C13_DispatchOnType ==
  (req.route = "POST /api/portal/log" /\ resp.status = 200) =>
    LET type == Get(req.body, "type")
        st == stateByTenant[resolved[1]]
        w == wrote[Len(wrote)]
    IN  /\ type = Text("event") => (st.events # <<>> /\ Kept("event", Head(st.events)) = Sent(w))
        /\ type = Text("error") => (st.errors # <<>> /\ Kept("error", Head(st.errors)) = Sent(w))
        /\ type = Text("usage") => (st.usages # <<>> /\ Kept("usage", Head(st.usages)) = Sent(w))
        /\ type = Text("metric") => (st.metrics # <<>> /\ Kept("metric", Head(st.metrics)) = Sent(w))
        /\ type = Text("conversation") =>
             \E i \in 1..Len(st.conversations) :
               st.conversations[i].sessionId = KeyOf(Get(req.body, "sessionId"))
        /\ (type = Text("lead") /\ Truthy(Get(req.body, "value"))) => premium(st, req.at).totalLeads > 0

\* The types the switch of POST /api/portal/log has a case for.
KnownTypes == { Text("event"), Text("error"), Text("usage"), Text("metric"), Text("conversation") }

\* What a tenant has stored: everything in its state but the time it was created.
Contents(st) ==
  [events |-> st.events, errors |-> st.errors, usage |-> st.usage, usages |-> st.usages,
   metrics |-> st.metrics, latSamples |-> st.latSamples, requestsToday |-> st.requestsToday,
   successesToday |-> st.successesToday, conversations |-> st.conversations,
   totalLeads |-> st.totalLeads, withContact |-> st.withContact, topics |-> st.topics]

\* C14: handling a POST /api/portal/log whose type is missing or is none of the
\* known types leaves what every tenant has stored as it was; a tenant that had
\* no state before had nothing stored, as in a state just created.
C14_UnknownTypeNoEffect ==
  [][ ( /\ req.route = "none"
        /\ req'.route = "POST /api/portal/log"
        /\ Get(req'.body, "type") \notin KnownTypes )
      => /\ DOMAIN stateByTenant \subseteq DOMAIN stateByTenant'
         /\ \A k \in DOMAIN stateByTenant' :
              Contents(stateByTenant'[k]) =
                Contents(IF k \in DOMAIN stateByTenant THEN stateByTenant[k] ELSE NewState(now)) ]_vars

\* A call of an unknown type is answered while the tenant has an event stored.
C14_Witness ==
  /\ req.route = "POST /api/portal/log"
  /\ Get(req.body, "type") = Text("bogus")
  /\ resp.status = 200
  /\ stateByTenant[resolved[1]].events # <<>>

\* C15: an ingestion call that is not answered 200 has failed at the handler's
\* boundary: it has left no tenant's state created or changed.
C15_FailuresCaught ==
  (req.route \in WriteRoutes /\ resp.status # 200) => touched = {}

\* C16: a login without email or password is answered 400 missing_fields; one
\* whose email no account has, and one whose password does not match, are
\* answered 401 with the same invalid_credentials body; no login that is not
\* answered 200 sets a session cookie.
C16_FailingLoginNoSession ==
  req.route = LoginRoute =>
    LET email == req.body.email
        password == req.body.password
        present == Truthy(email) /\ password # ""
        rows == IF email.t = "string" THEN { u \in adminUsers : u.email = toLowerCase(email.v) } ELSE {}
    IN  /\ ~present => resp = ErrorResponse(400, "missing_fields")
        /\ (present /\ req.dbUp /\ rows = {}) => resp = ErrorResponse(401, "invalid_credentials")
        /\ (present /\ req.dbUp /\ rows # {} /\ \A u \in rows : ~bcryptCompare(password, u.passwordHash))
             => resp = ErrorResponse(401, "invalid_credentials")
        /\ resp.status # 200 => (resp.setCookie = <<>> /\ ~resp.clearCookie)

\* A login with the email of an account and another password is turned away.
C16_Witness ==
  /\ req.route = LoginRoute
  /\ req.body = [email |-> Str(BobEmail), password |-> AdminPassword]
  /\ Bob \in adminUsers
  /\ resp = ErrorResponse(401, "invalid_credentials")

\* C19: in every tenant's state the successes counted today are no more than
\* the requests counted today, the success rate that metrics derives from them
\* is between 0 and 100 percent, and metrics reports status 'ok' only when that
\* rate is at least 99 percent.
C19_SuccessWithinRequests ==
  \A k \in DOMAIN stateByTenant :
    LET st == stateByTenant[k]
        m == metrics(st, now)
    IN  /\ st.successesToday <= st.requestsToday
        /\ m.successRate \in 0..1000
        /\ m.status = "ok" => m.successRate >= 990

\* The payload of a usage call: the body of log-usage, the usage field of log.
UsagePayload(r) ==
  IF r.route = "POST /api/portal/log-usage" THEN r.body ELSE Get(r.body, "usage")

\* The first of the values that is present, 0 when none is.
RECURSIVE FirstPresent(_)
FirstPresent(q) ==
  IF q = <<>> THEN Num(0)
  ELSE IF Nullish(Head(q)) THEN FirstPresent(Tail(q)) ELSE Head(q)

\* A token count, 0 when it is not given.
CountOr0(x) == IF Nullish(x) THEN Num(0) ELSE x

\* C18: the usage record that a usage call stores, as the current usage and at
\* the head of the history, has a breakdown of exactly promptUSD, completionUSD,
\* cachedUSD and total; each cost is the payload's inputCost, outputCost or
\* cachedCost when present, else its canonical name, else 0; total is the
\* breakdown's total, else costUSD, else cost, else 0; each token count is the
\* payload's, 0 when absent; whatever the payload, an absent one included.
C18_UsageNormalized ==
  (/\ req.route \in {"POST /api/portal/log", "POST /api/portal/log-usage"}
   /\ KindOf(req.route, req.body) = "usage"
   /\ resp.status = 200) =>
    LET st == stateByTenant[resolved[1]]
        u == UsagePayload(req)
        b == Get(u, "breakdown")
        canonical ==
          [promptUSD |-> FirstPresent(<<Get(b, "inputCost"), Get(b, "promptUSD")>>),
           completionUSD |-> FirstPresent(<<Get(b, "outputCost"), Get(b, "completionUSD")>>),
           cachedUSD |-> FirstPresent(<<Get(b, "cachedCost"), Get(b, "cachedUSD")>>),
           total |-> FirstPresent(<<Get(b, "total"), Get(u, "costUSD"), Get(u, "cost")>>)]
    IN  /\ st.usages # <<>>
        /\ \A rec \in { Head(st.usages), st.usage } :
             /\ DOMAIN rec.breakdown = {"promptUSD", "completionUSD", "cachedUSD", "total"}
             /\ rec.breakdown = canonical
             /\ rec.prompt_tokens = CountOr0(Get(u, "prompt_tokens"))
             /\ rec.completion_tokens = CountOr0(Get(u, "completion_tokens"))
             /\ rec.cached_tokens = CountOr0(Get(u, "cached_tokens"))

C18_Witness ==
  /\ req.route = "POST /api/portal/log"
  /\ resp.status = 200
  /\ Get(Get(Get(req.body, "usage"), "breakdown"), "promptUSD") = Num(2)
  /\ Get(Get(Get(req.body, "usage"), "breakdown"), "inputCost") = Num(1)
  /\ Head(stateByTenant[resolved[1]].usages).breakdown.promptUSD = Num(1)
  /\ Head(stateByTenant[resolved[1]].usages).breakdown.completionUSD = Num(0)

GatedRoutes == {"GET /portal", "GET /api/portal/events", "POST /api/portal/log-event"}

\* The request carries the configured key in its key query parameter or in its
\* x-customer-key header.
SuppliesKey(r) == Get(r.query, "key") = customerKey \/ r.xCustomerKey = customerKey

\* C17: with CUSTOMER_KEY configured, a request to /portal or /api/portal is
\* passed on to its handler exactly when its key query parameter or its
\* x-customer-key header is the configured key, and is otherwise answered 401
\* with no tenant state read or changed; with CUSTOMER_KEY unset no request is
\* answered 401.
C17_GatePassesIffKeySupplied ==
  req.route \in GatedRoutes =>
    IF Truthy(customerKey)
    THEN /\ SuppliesKey(req) <=> resp.status # 401
         /\ resp.status = 401 => (touched = {} /\ resolved = <<>>)
    ELSE resp.status # 401

\* The row of tenant id in a table.
RowOf(rows, id) == CHOOSE r \in rows : r.id = id

\* C20: a run of the encryption script without a master key ends with an error
\* having read no tenant and updated none, every stored secret as it was; and
\* a run in which an update was rejected ends with an error, the tenants it
\* had not come to yet being as they were when it started.
C20_ScriptFailsClosed ==
  /\ (script.pc # "none" /\ ~script.hasKey) =>
       (script.pc = "failed" /\ script.reads = 0 /\ script.updates = <<>> /\ tenants = script.before)
  /\ script.rejected # <<>> =>
       /\ script.pc = "failed"
       /\ \A i \in 1..Len(script.todo) :
            RowOf(tenants, script.todo[i].id) = RowOf(script.before, script.todo[i].id)
       /\ RowOf(tenants, script.rejected[1]) = RowOf(script.before, script.rejected[1])

C20_Witness ==
  /\ script.pc = "failed"
  /\ script.hasKey
  /\ script.updates = <<Acme>>
  /\ script.rejected = <<Dotted>>
  /\ script.todo = <<BetaRow>>
  /\ RowOf(tenants, Acme).smtpPass = encrypt(Text("p1"))
  /\ RowOf(tenants, Dotted) = DottedRow

SecretColumns == {"smtpPass", "openaiKey", "googleClientSecret", "googleTokens"}

Pending == { k \in 1..Len(page.calls) : page.calls[k] \in {"fetch", "json"} }

\* C22: at any time at most one premium request that has not been aborted is
\* pending, and the data displayed is never that of a request older than one
\* whose data has been displayed.
C22_OnePendingRequest ==
  /\ Cardinality(Pending) <= 1
  /\ \A k \in 1..Len(page.calls) : page.calls[k] = "rendered" => page.lastData >= k

\* C23, the part on states: while a request that has not been aborted is
\* pending the three loading indicators are displayed, and an error message is
\* displayed only when a call failed otherwise than by an abort.
C23_LoadingWhilePending ==
  /\ Pending # {} => page.loading = Sections
  /\ page.error # "" => \E k \in 1..Len(page.calls) : page.calls[k] = "failed"

\* C23, the part on behaviours: a call of loadPremiumData that awaits its
\* request is followed by a state without loading indicators.
C23_IndicatorsRemoved ==
  \A k \in 1..MaxCalls :
    (k \in Pending) ~> (k \notin Pending /\ page.loading = {})

\* An error message is displayed only when a call failed otherwise than by an abort.
AbortSilent ==
  page.error # "" => \E k \in 1..Len(page.calls) : page.calls[k] = "failed"
====
